---- MODULE Spec2Model ----
(***************************************************************************)
(* State-machine model of the three programs of the repository:            *)
(*   ingres   - src/ingres_chatbot.py          (Streamlit chat)            *)
(*   learning - src/learning_path_generator.py (Streamlit plan + Ask AI)   *)
(*   flask    - src/Main.py                    (POST /chat)                *)
(* A process runs exactly one of them (variable app).  Python strings are  *)
(* sequences of symbols; a string literal of the source is one symbol.     *)
(* A handler that calls the generation service is split at the call: one   *)
(* action runs it up to the request, one action runs it from the outcome   *)
(* of the request to the end of the script run.                            *)
(***************************************************************************)
EXTENDS Integers, Sequences, FiniteSets, TLC

VARIABLES app, pc, credential, model, session_state, pending, calls,
          st_error, http_reply, last

vars == <<app, pc, credential, model, session_state, pending, calls,
          st_error, http_reply, last>>

(* ------------------------------ bounds --------------------------------- *)
\* longest text a user types (or a recogniser transcribes)
MaxInLen == 2
\* number of requests to the generation service in one behaviour
MaxCalls == 2

(* ------------------------------ strings -------------------------------- *)
Chars == {" ", "a"}

RECURSIVE StringsUpTo(_)
StringsUpTo(n) ==
    IF n = 0 THEN {<<>>}
    ELSE LET shorter == StringsUpTo(n - 1)
         IN  shorter \cup {<<c>> \o s : c \in Chars, s \in {t \in shorter : Len(t) = n - 1}}

Inputs == StringsUpTo(MaxInLen)

\* Python truthiness of a str: "" is false, everything else is true
Truthy(s) == Len(s) > 0

RECURSIVE LStrip(_)
LStrip(s) == IF s # <<>> /\ Head(s) = " " THEN LStrip(Tail(s)) ELSE s

RECURSIVE RStrip(_)
RStrip(s) ==
    IF s # <<>> /\ s[Len(s)] = " " THEN RStrip(SubSeq(s, 1, Len(s) - 1)) ELSE s

\* str.strip()
Strip(s) == RStrip(LStrip(s))

\* Python  m in s  for strings
Contains(s, m) ==
    \E i \in 1..(Len(s) + 1) :
        i + Len(m) - 1 <= Len(s) /\ SubSeq(s, i, i + Len(m) - 1) = m

\* Optional[str]
None == [some |-> FALSE, v |-> <<>>]
Some(s) == [some |-> TRUE, v |-> s]
OptTruthy(o) == o.some /\ Truthy(o.v)

\* what speech recognition hands back: a transcript, or None when nothing
\* was recognised (or no audio was given)
Transcripts == {None, Some(<<"a">>), Some(<<"a", " ", "a">>)}

(* --------------------------- string literals --------------------------- *)
GREETING == <<"Hello! I am your INGRES virtual assistant. How can I help you?">>
INGRES_APOLOGY == <<"Sorry, I ran into a problem. Please try again.">>
INGRES_ERROR_PREFIX == <<"An error occurred: ">>
KEY_NOT_FOUND == <<"Gemini API key not found. Please set the GEMINI_API_KEY environment variable or add it to your Streamlit secrets.">>
ENTER_GOAL == <<"Please enter a learning goal to get started.">>
PATH_FALLBACK == <<"Sorry, the AI could not generate a learning path. Please try again with more details or check your API quota.">>
PATH_ERROR_PREFIX == <<"Error generating learning path: ">>
ASK_FALLBACK == <<"Sorry, the AI could not answer. Please try again or rephrase your question.">>
ASK_ERROR_PREFIX == <<"Error: ">>
NO_INPUT == <<"No input provided">>
FILE_UNSUPPORTED == <<"[Uploaded file type not supported for preview, but will be used for personalization.]">>
FILE_ERROR == <<"[Error reading file.]">>

(* ---------------------- the generation service ------------------------- *)
\* what a request to the service can come back with
RemoteTexts == {<<>>, <<" ">>, <<"a">>}
ErrMsgs == {<<"e">>, <<"f">>}
HttpBodies == {<<>>, <<"a">>}

NoOutcome == [kind |-> "none", text |-> <<>>, msg |-> <<>>, status |-> 0]
TextOutcome(t) == [kind |-> "text", text |-> t, msg |-> <<>>, status |-> 0]
\* a response object without a text attribute
NoTextOutcome == [kind |-> "notext", text |-> <<>>, msg |-> <<"text">>, status |-> 0]
RaiseOutcome(m) == [kind |-> "raise", text |-> <<>>, msg |-> m, status |-> 0]
HttpOutcome(st, t) == [kind |-> "http", text |-> t, msg |-> <<>>, status |-> st]

\* outcomes of a google.generativeai call; without a configured key every
\* request fails
SdkOutcomes(key) ==
    IF key = "key"
    THEN {TextOutcome(t) : t \in RemoteTexts} \cup {NoTextOutcome}
         \cup {RaiseOutcome(m) : m \in ErrMsgs}
    ELSE {RaiseOutcome(m) : m \in ErrMsgs}

\* outcomes of requests.request: an HTTP response of any status, or an
\* exception of the transport
HttpOutcomes ==
    {HttpOutcome(st, t) : st \in {200, 403}, t \in HttpBodies}
    \cup {RaiseOutcome(m) : m \in ErrMsgs}

NoRequest == [payload |-> <<>>, prompt |-> <<>>]

(* ---------------------------- bookkeeping ------------------------------ *)
\* the operation in progress or last completed: its name, its input, the
\* history and the number of requests at its entry, the outcome it got
NoOp == [op |-> "none", input |-> <<>>, hist0 |-> <<>>, calls0 |-> 0,
         outcome |-> NoOutcome, done |-> TRUE, ctx0 |-> <<>>]

Turn(role, content) == [role |-> role, content |-> content]

\* dict lookup / update of st.session_state
Has(ss, key) == key \in DOMAIN ss
Put(ss, key, value) == (key :> value) @@ ss

(* --------------------------- the environment --------------------------- *)
\* what the process finds when it starts: GEMINI_API_KEY in the environment
\* or not, and no secrets file, a secrets file without the key, or one
\* with it
Environments ==
    [env_key : BOOLEAN, secrets : {"nofile", "nokey", "haskey"}]

\* whether a key can be had from the environment variable or the secrets
KeyOf(e) == IF e.env_key \/ e.secrets = "haskey" THEN "found" ELSE "missing"

(* ======================= src/ingres_chatbot.py ========================= *)
\* lines 7-11
get_or_init_session_state(ss, key, default_value) ==
    IF ~Has(ss, key) THEN Put(ss, key, default_value) ELSE ss

\* lines 13-25: os.environ.get(K) or st.secrets.get(K); st.secrets.get
\* raises FileNotFoundError when there is no secrets file and returns None
\* when the file has no such key; genai.configure accepts None
ingres_configure(env, sec) ==
    IF env THEN [halt |-> FALSE, key |-> "key"]
    ELSE IF sec = "nofile" THEN [halt |-> TRUE, key |-> "unset"]
    ELSE IF sec = "nokey" THEN [halt |-> FALSE, key |-> "none"]
    ELSE [halt |-> FALSE, key |-> "key"]

\* model.start_chat(history=[])
start_chat == [sent |-> <<>>]

\* lines 107-111
ingres_init_state(ss) ==
    get_or_init_session_state(
        get_or_init_session_state(ss, "messages", <<Turn("assistant", GREETING)>>),
        "chat_session", start_chat)

\* handle_prompt_user with the append left to the end of the handler
handle_prompt_user_deferred(messages, prompt) == messages

\* line 43
handle_prompt_user(messages, prompt) == Append(messages, Turn("user", prompt))

\* handle_prompt_try without the except clause
handle_prompt_try_uncaught(outcome) ==
    IF outcome.kind = "text"
    THEN [bot_reply |-> outcome.text, st_error |-> <<>>, escaped |-> FALSE]
    ELSE [bot_reply |-> <<>>, st_error |-> <<>>, escaped |-> TRUE]

\* lines 51-58: the try block and its handler
handle_prompt_try(outcome) ==
    IF outcome.kind = "text"
    THEN [bot_reply |-> outcome.text, st_error |-> <<>>, escaped |-> FALSE]
    ELSE [bot_reply |-> INGRES_APOLOGY,
          st_error |-> INGRES_ERROR_PREFIX \o outcome.msg, escaped |-> FALSE]

\* line 61
handle_prompt_assistant(messages, bot_reply) ==
    Append(messages, Turn("assistant", bot_reply))

\* send_message with a second attempt
send_message_retry(n) == n + 2

\* line 52: one request
send_message(n) == n + 1

\* lines 92-95
clear_chat_history(ss) ==
    Put(Put(ss, "messages", <<>>), "chat_session", start_chat)


IngresStartup ==
    /\ app = "ingres" /\ pc = "boot"
    /\ \E e \in Environments :
       LET cfg == ingres_configure(e.env_key, e.secrets)
       IN  /\ credential' = KeyOf(e)
           /\ IF cfg.halt
              THEN /\ pc' = "halted"
                   /\ st_error' = KEY_NOT_FOUND
                   /\ UNCHANGED <<model, session_state>>
              ELSE /\ pc' = "idle"
                   /\ model' = [made |-> TRUE, key |-> cfg.key]
                   /\ session_state' = ingres_init_state(session_state)
                   /\ UNCHANGED st_error
    /\ UNCHANGED <<app, pending, calls, http_reply, last>>

\* script run started by st.chat_input (lines 107-120, 40-52)
IngresChatInput ==
    /\ app = "ingres" /\ pc = "idle" /\ calls < MaxCalls
    /\ \E prompt \in Inputs :
        LET ss == ingres_init_state(session_state)
            begun == [op |-> "handle_prompt", input |-> prompt,
                      hist0 |-> ss["messages"], calls0 |-> calls,
                      outcome |-> NoOutcome, done |-> FALSE, ctx0 |-> <<>>]
        IN  IF Truthy(prompt)
            THEN /\ session_state' =
                       Put(ss, "messages", handle_prompt_user(ss["messages"], prompt))
                 /\ pending' = [payload |-> prompt, prompt |-> prompt]
                 /\ calls' = send_message(calls)
                 /\ pc' = "send_message"
                 /\ last' = begun
            ELSE /\ session_state' = ss
                 /\ last' = [begun EXCEPT !.done = TRUE]
                 /\ UNCHANGED <<pending, calls, pc>>
    /\ st_error' = <<>>
    /\ UNCHANGED <<app, credential, model, http_reply>>

\* script run started by the "Speak to Assistant" button (lines 97-100)
IngresVoice ==
    /\ app = "ingres" /\ pc = "idle" /\ calls < MaxCalls
    /\ \E voice_prompt \in Transcripts :
        LET begun == [op |-> "handle_prompt", input |-> voice_prompt.v,
                      hist0 |-> session_state["messages"], calls0 |-> calls,
                      outcome |-> NoOutcome, done |-> FALSE, ctx0 |-> <<>>]
        IN  IF OptTruthy(voice_prompt)
            THEN /\ session_state' =
                       Put(session_state, "messages",
                           handle_prompt_user(session_state["messages"], voice_prompt.v))
                 /\ pending' = [payload |-> voice_prompt.v, prompt |-> voice_prompt.v]
                 /\ calls' = send_message(calls)
                 /\ pc' = "send_message"
                 /\ last' = begun
            ELSE /\ session_state' = ingres_init_state(session_state)
                 /\ last' = [begun EXCEPT !.done = TRUE]
                 /\ UNCHANGED <<pending, calls, pc>>
    /\ st_error' = <<>>
    /\ UNCHANGED <<app, credential, model, http_reply>>

\* send_message returns or raises; the rest of handle_prompt and of the run
IngresReturn ==
    /\ app = "ingres" /\ pc = "send_message"
    /\ \E outcome \in SdkOutcomes(model.key) :
        LET r == handle_prompt_try(outcome)
            chat == session_state["chat_session"]
            ss1 == IF outcome.kind = "raise" THEN session_state
                   ELSE Put(session_state, "chat_session",
                            [sent |-> Append(chat.sent, pending.prompt)])
        IN  /\ st_error' = r.st_error
            /\ IF r.escaped
               THEN /\ pc' = "crashed"
                    /\ session_state' = ss1
               ELSE /\ pc' = "idle"
                    /\ session_state' =
                          ingres_init_state(
                              Put(ss1, "messages",
                                  handle_prompt_assistant(ss1["messages"], r.bot_reply)))
            /\ last' = [last EXCEPT !.outcome = outcome, !.done = TRUE]
    /\ pending' = NoRequest
    /\ UNCHANGED <<app, credential, model, calls, http_reply>>

\* "Clear Chat History" and the rerun it starts (lines 92-95, 107-111)
IngresClear ==
    /\ app = "ingres" /\ pc = "idle"
    /\ session_state' = ingres_init_state(clear_chat_history(session_state))
    /\ last' = [op |-> "reset", input |-> <<>>, hist0 |-> session_state["messages"],
                calls0 |-> calls, outcome |-> NoOutcome, done |-> TRUE, ctx0 |-> <<>>]
    /\ st_error' = <<>>
    /\ UNCHANGED <<app, pc, credential, model, pending, calls, http_reply>>

(* =================== src/learning_path_generator.py ==================== *)
\* lines 9-23: st.secrets.get is reached only without the environment
\* variable; its FileNotFoundError is not among the caught exceptions
learning_configure(env, sec) ==
    IF env THEN [result |-> "ok", key |-> "key"]
    ELSE IF sec = "nofile" THEN [result |-> "crash", key |-> "unset"]
    ELSE IF sec = "nokey" THEN [result |-> "halt", key |-> "unset"]
    ELSE [result |-> "ok", key |-> "key"]

\* uploads: none, a text file, a text file that does not decode, another type
NoFile == [present |-> FALSE, type |-> "", value |-> <<>>, decodes |-> TRUE]
Files ==
    {NoFile,
     [present |-> TRUE, type |-> "text/plain", value |-> <<"a">>, decodes |-> TRUE],
     [present |-> TRUE, type |-> "text/plain", value |-> <<"a">>, decodes |-> FALSE],
     [present |-> TRUE, type |-> "application/pdf", value |-> <<"a">>, decodes |-> TRUE]}

\* lines 108-117
get_file_content(file) ==
    IF ~file.present THEN <<>>
    ELSE IF file.type = "text/plain"
         THEN IF file.decodes THEN file.value ELSE FILE_ERROR
         ELSE FILE_UNSUPPORTED

\* line 144
generate_rejects(goal) == ~Truthy(goal) \/ Strip(goal) = <<>>

\* lines 146-156
generate_prompt(goal, skills, preferences, resume) ==
    <<"You are an AI learning path generator.\nUser Goal: ">> \o goal
    \o <<"\nUser Skills: ">> \o skills
    \o <<"\nUser Preferences: ">> \o preferences
    \o <<"\nResume/Skill List: ">> \o resume
    \o <<"\nGenerate a clear, concise, and actionable learning path for the user. ...">>

\* line 160 and line 221: hasattr(response, "text") and response.text and
\* response.text.strip()
valid_text(outcome) ==
    outcome.kind = "text" /\ Truthy(outcome.text) /\ Truthy(Strip(outcome.text))

\* lines 157-165
generate_result(outcome) ==
    IF outcome.kind = "raise" THEN PATH_ERROR_PREFIX \o outcome.msg
    ELSE IF valid_text(outcome) THEN outcome.text
    ELSE PATH_FALLBACK

\* line 158 and line 220: one request
generate_content(n) == n + 1

\* line 215
final_message(user_message, voice_text) ==
    IF Truthy(user_message) THEN Some(user_message)
    ELSE IF OptTruthy(voice_text) THEN voice_text ELSE None

\* ask_context with the question ahead of the plan
ask_context_question_first(learning_path, question) ==
    <<"User's question: ">> \o question
    \o <<"\nUser's learning path: ">> \o learning_path

\* line 218
ask_context(learning_path, question) ==
    <<"User's learning path: ">> \o learning_path
    \o <<"\nUser's question: ">> \o question

\* ask_entry with the failure detail dropped
ask_entry_generic(question, outcome) ==
    IF valid_text(outcome)
    THEN [pair |-> <<question, outcome.text>>, escaped |-> FALSE]
    ELSE [pair |-> <<question, ASK_FALLBACK>>, escaped |-> FALSE]

\* lines 219-226: the pair appended to assistant_history
ask_entry(question, outcome) ==
    IF outcome.kind = "raise"
    THEN [pair |-> <<question, ASK_ERROR_PREFIX \o outcome.msg>>, escaped |-> FALSE]
    ELSE IF valid_text(outcome)
    THEN [pair |-> <<question, outcome.text>>, escaped |-> FALSE]
    ELSE [pair |-> <<question, ASK_FALLBACK>>, escaped |-> FALSE]

\* lines 175, 194-195
learning_render(ss) ==
    IF Truthy(ss["learning_path"]) /\ ~Has(ss, "assistant_history")
    THEN Put(ss, "assistant_history", <<>>)
    ELSE ss

\* the turns of a list of (question, answer) pairs, as rendered by
\* lines 230-232
RECURSIVE PairTurns(_)
PairTurns(pairs) ==
    IF pairs = <<>> THEN <<>>
    ELSE <<Turn("user", Head(pairs)[1]), Turn("assistant", Head(pairs)[2])>>
         \o PairTurns(Tail(pairs))

HistoryOf(ss) ==
    IF Has(ss, "messages") THEN ss["messages"]
    ELSE IF Has(ss, "assistant_history") THEN PairTurns(ss["assistant_history"])
    ELSE <<>>

History == HistoryOf(session_state)

\* the optional widgets of lines 95-99: left empty, or filled in with one
\* of the uploads
Forms ==
    {[skills |-> <<>>, preferences |-> <<>>, uploaded_file |-> NoFile]}
    \cup {[skills |-> <<"a">>, preferences |-> <<"a", " ">>, uploaded_file |-> f] :
             f \in Files \ {NoFile}}

LearnStartup ==
    /\ app = "learning" /\ pc = "boot"
    /\ \E e \in Environments :
       LET cfg == learning_configure(e.env_key, e.secrets)
       IN  /\ credential' = KeyOf(e)
           /\ CASE cfg.result = "crash" ->
                     /\ pc' = "crashed"
                     /\ UNCHANGED <<model, session_state, st_error>>
                [] cfg.result = "halt" ->
                     /\ pc' = "halted"
                     /\ st_error' = KEY_NOT_FOUND
                     /\ UNCHANGED <<model, session_state>>
                [] OTHER ->
                     /\ pc' = "idle"
                     /\ model' = [made |-> TRUE, key |-> cfg.key]
                     /\ session_state' =
                           learning_render(Put(session_state, "learning_path", <<>>))
                     /\ UNCHANGED st_error
    /\ UNCHANGED <<app, pending, calls, http_reply, last>>

\* script run started by "Generate My Learning Path" (lines 169-173, 142-158)
LearnGenerate ==
    /\ app = "learning" /\ pc = "idle" /\ calls < MaxCalls
    /\ \E goal \in Inputs, form \in Forms :
        LET skills == form.skills
            preferences == form.preferences
            uploaded_file == form.uploaded_file
            begun == [op |-> "generate", input |-> goal, hist0 |-> History,
                      calls0 |-> calls, outcome |-> NoOutcome, done |-> FALSE,
                      ctx0 |-> session_state["learning_path"]]
        IN  /\ Truthy(goal)
            /\ IF generate_rejects(goal)
               THEN /\ session_state' =
                          learning_render(Put(session_state, "learning_path", ENTER_GOAL))
                    /\ last' = [begun EXCEPT !.done = TRUE]
                    /\ UNCHANGED <<pending, calls, pc>>
               ELSE /\ pending' =
                          [payload |-> generate_prompt(goal, skills, preferences,
                                                       get_file_content(uploaded_file)),
                           prompt |-> goal]
                    /\ calls' = generate_content(calls)
                    /\ pc' = "generate_learning_path"
                    /\ last' = begun
                    /\ UNCHANGED session_state
    /\ UNCHANGED <<app, credential, model, st_error, http_reply>>

\* generate_content returns or raises (lines 159-165, 173-195)
LearnGenerateReturn ==
    /\ app = "learning" /\ pc = "generate_learning_path"
    /\ \E outcome \in SdkOutcomes(model.key) :
        /\ session_state' =
              learning_render(Put(session_state, "learning_path", generate_result(outcome)))
        /\ last' = [last EXCEPT !.outcome = outcome, !.done = TRUE]
    /\ pc' = "idle"
    /\ pending' = NoRequest
    /\ UNCHANGED <<app, credential, model, calls, st_error, http_reply>>

\* script run started by "Ask AI" (lines 197-220); the button is rendered
\* only under line 175
LearnAsk ==
    /\ app = "learning" /\ pc = "idle" /\ calls < MaxCalls
    /\ Truthy(session_state["learning_path"])
    /\ \E user_message \in Inputs, voice_text \in Transcripts :
        LET fm == final_message(user_message, voice_text)
            begun == [op |-> "ask_ai", input |-> fm.v, hist0 |-> History,
                      calls0 |-> calls, outcome |-> NoOutcome, done |-> FALSE,
                      ctx0 |-> session_state["learning_path"]]
        IN  IF OptTruthy(fm)
            THEN /\ pending' =
                       [payload |-> ask_context(session_state["learning_path"], fm.v),
                        prompt |-> fm.v]
                 /\ calls' = generate_content(calls)
                 /\ pc' = "ask_ai"
                 /\ last' = begun
            ELSE /\ last' = [begun EXCEPT !.done = TRUE]
                 /\ UNCHANGED <<pending, calls, pc>>
    /\ UNCHANGED <<app, credential, model, session_state, st_error, http_reply>>

\* generate_content returns or raises (lines 221-232)
LearnAskReturn ==
    /\ app = "learning" /\ pc = "ask_ai"
    /\ \E outcome \in SdkOutcomes(model.key) :
        LET r == ask_entry(pending.prompt, outcome)
        IN  /\ IF r.escaped
               THEN /\ pc' = "crashed"
                    /\ UNCHANGED session_state
               ELSE /\ pc' = "idle"
                    /\ session_state' =
                          Put(session_state, "assistant_history",
                              Append(session_state["assistant_history"], r.pair))
            /\ last' = [last EXCEPT !.outcome = outcome, !.done = TRUE]
    /\ pending' = NoRequest
    /\ UNCHANGED <<app, credential, model, calls, st_error, http_reply>>

(* ============================ src/Main.py ============================== *)
\* request bodies: not JSON, a JSON object without "message", a JSON
\* object with a string "message"
NotJson == [json |-> FALSE, has_message |-> FALSE, message |-> <<>>]
NoMessage == [json |-> TRUE, has_message |-> FALSE, message |-> <<>>]
Message(s) == [json |-> TRUE, has_message |-> TRUE, message |-> s]
Bodies == {NotJson, NoMessage} \cup {Message(s) : s \in Inputs}

BAD_REQUEST == <<"400 Bad Request: Failed to decode JSON object">>
NoReply == [status |-> 0, fields |-> {}, text |-> <<>>]

\* lines 18-21 and 51-52: the reply sent before any request, if any
chat_early_reply(body) ==
    IF ~body.json
    THEN [status |-> 500, fields |-> {"error"}, text |-> BAD_REQUEST]
    ELSE IF ~Truthy(IF body.has_message THEN body.message ELSE <<>>)
    THEN [status |-> 400, fields |-> {"error"}, text |-> NO_INPUT]
    ELSE NoReply

\* lines 29-39
chat_payload(user_input) ==
    <<"{\"contents\": [{\"parts\": [{\"text\": \"">> \o user_input \o <<"\"}]}]}">>

\* line 45: one request
requests_request(n) == n + 1

\* lines 45-52
chat_reply(outcome) ==
    IF outcome.kind = "raise"
    THEN [status |-> 500, fields |-> {"error"}, text |-> outcome.msg]
    ELSE [status |-> 200, fields |-> {"response"}, text |-> outcome.text]

\* line 56: nothing is configured or checked before serving (line 11)
FlaskStartup ==
    /\ app = "flask" /\ pc = "boot"
    /\ \E e \in Environments : credential' = KeyOf(e)
    /\ pc' = "idle"
    /\ UNCHANGED <<app, model, session_state, pending, calls,
                   st_error, http_reply, last>>

\* POST /chat up to the request to the service (lines 17-45)
FlaskChat ==
    /\ app = "flask" /\ pc = "idle" /\ calls < MaxCalls
    /\ \E body \in Bodies :
        LET early == chat_early_reply(body)
            begun == [op |-> "chat", input |-> body.message, hist0 |-> <<>>,
                      calls0 |-> calls, outcome |-> NoOutcome, done |-> FALSE,
                      ctx0 |-> <<>>]
        IN  IF early # NoReply
            THEN /\ http_reply' = early
                 /\ last' = [begun EXCEPT !.done = TRUE]
                 /\ UNCHANGED <<pending, calls, pc>>
            ELSE /\ pending' = [payload |-> chat_payload(body.message),
                                prompt |-> body.message]
                 /\ calls' = requests_request(calls)
                 /\ pc' = "chat"
                 /\ http_reply' = NoReply
                 /\ last' = begun
    /\ UNCHANGED <<app, credential, model, session_state, st_error>>

\* requests.request returns or raises (lines 45-52)
FlaskChatReturn ==
    /\ app = "flask" /\ pc = "chat"
    /\ \E outcome \in HttpOutcomes :
        /\ http_reply' = chat_reply(outcome)
        /\ last' = [last EXCEPT !.outcome = outcome, !.done = TRUE]
    /\ pc' = "idle"
    /\ pending' = NoRequest
    /\ UNCHANGED <<app, credential, model, session_state, calls, st_error>>

(* ========================== the state machine ========================== *)
Apps == {"ingres", "learning", "flask"}

Init ==
    /\ app \in Apps
    /\ pc = "boot"
    /\ credential = "unread"
    /\ model = [made |-> FALSE, key |-> "unset"]
    /\ session_state = <<>>
    /\ pending = NoRequest
    /\ calls = 0
    /\ st_error = <<>>
    /\ http_reply = NoReply
    /\ last = NoOp

Next ==
    \/ IngresStartup
    \/ IngresChatInput
    \/ IngresVoice
    \/ IngresReturn
    \/ IngresClear
    \/ LearnStartup
    \/ LearnGenerate
    \/ LearnGenerateReturn
    \/ LearnAsk
    \/ LearnAskReturn
    \/ FlaskStartup
    \/ FlaskChat
    \/ FlaskChatReturn

Spec == Init /\ [][Next]_vars

(* ============================== claims ================================= *)
SubmitOps == {"handle_prompt", "ask_ai"}
InFlight == pc \in {"send_message", "generate_learning_path", "ask_ai", "chat"}
\* the operation named by last has finished and did send a request
Answered == last.done /\ last.outcome.kind # "none"
LastTurn == History[Len(History)]
BlankText(o) == o.kind = "notext" \/ (o.kind = "text" /\ Strip(o.text) = <<>>)
FreshHistory == ingres_init_state(<<>>)["messages"]

\* C1: a submit of a text that is non-empty after trimming extends the
\* history by one user turn holding that text and then one assistant turn,
\* whatever the service does, and keeps the earlier turns.
C1_SubmitAppendsPair ==
    (last.op \in SubmitOps /\ last.done /\ Strip(last.input) # <<>>) =>
        /\ Len(History) = Len(last.hist0) + 2
        /\ SubSeq(History, 1, Len(last.hist0)) = last.hist0
        /\ History[Len(History) - 1] = Turn("user", last.input)
        /\ LastTurn.role = "assistant"

C1_Witness ==
    /\ last.op = "handle_prompt" /\ last.done /\ Strip(last.input) # <<>>
    /\ last.outcome.kind = "raise"
    /\ Len(last.hist0) >= 3

\* C2: a submit whose text is empty or only whitespace changes no history
\* and sends no request, at every entry point.
C2_BlankInputRejected ==
    (last.op \in SubmitOps \cup {"chat"} /\ Strip(last.input) = <<>>) =>
        /\ History = last.hist0
        /\ calls = last.calls0
        /\ ~InFlight

\* C3: when the service answers without text, or with empty or whitespace
\* text, the assistant turn (the plan, for generate_learning_path) is the
\* fixed fallback message and never the empty string.
C3_BlankReplyFallsBack ==
    (last.done /\ BlankText(last.outcome)) =>
        /\ last.op = "handle_prompt" =>
              LastTurn.content # <<>> /\ LastTurn.content = INGRES_APOLOGY
        /\ last.op = "ask_ai" => LastTurn.content = ASK_FALLBACK
        /\ last.op = "generate" => session_state["learning_path"] = PATH_FALLBACK

C5_ResetRestoresGreeting ==
    last.op = "reset" =>
        /\ History = FreshHistory
        /\ History = <<Turn("assistant", GREETING)>>
        /\ calls = last.calls0
        /\ ~InFlight

\* C6: a /chat reply has either the field response with status 200 or the
\* field error with a status outside 2xx; an empty or missing message gives
\* the error form, and so does every failure while handling the request,
\* a failed generation request included (status 500).
C6_ChatReplyShape ==
    /\ http_reply # NoReply =>
          \/ http_reply.fields = {"response"} /\ http_reply.status = 200
          \/ http_reply.fields = {"error"} /\ http_reply.status \notin 200..299
    /\ (last.op = "chat" /\ last.done /\ ~Truthy(last.input)) =>
          http_reply.fields = {"error"} /\ http_reply.status \in {400, 500}
    /\ (last.op = "chat" /\ last.done
        /\ (\/ last.outcome.kind = "raise"
            \/ last.outcome.kind = "http" /\ last.outcome.status \notin 200..299)) =>
          http_reply.fields = {"error"} /\ http_reply.status = 500

\* C7: without an API key (no environment variable, no secret) startup
\* stops before the model client or a session exists and before any input
\* is taken.
C7_NoKeyHaltsStartup ==
    credential = "missing" =>
        /\ pc \in {"boot", "halted", "crashed"}
        /\ ~model.made
        /\ session_state = <<>>
        /\ calls = 0

PBeforeQ(payload, P, Q) ==
    \E i, j \in 1..Len(payload) :
        /\ i + Len(P) - 1 <= Len(payload)
        /\ j + Len(Q) - 1 <= Len(payload)
        /\ SubSeq(payload, i, i + Len(P) - 1) = P
        /\ SubSeq(payload, j, j + Len(Q) - 1) = Q
        /\ i + Len(P) <= j

\* C8: an Ask AI question Q asked while the plan is P sends a payload with
\* P before Q, adds only Q and the reply to the history, and leaves the
\* plan as it was.
C8_PlanPrecedesQuestion ==
    /\ pc = "ask_ai" =>
          /\ PBeforeQ(pending.payload, session_state["learning_path"], last.input)
          /\ session_state["learning_path"] = last.ctx0
    /\ (last.op = "ask_ai" /\ Answered) =>
          /\ session_state["learning_path"] = last.ctx0
          /\ Len(session_state["assistant_history"]) = Len(last.hist0) \div 2 + 1
          /\ History[Len(History) - 1] = Turn("user", last.input)
          /\ SubSeq(History, 1, Len(last.hist0)) = last.hist0

C8_Witness ==
    /\ last.op = "ask_ai" /\ Answered
    /\ last.ctx0 # last.input
    /\ Len(last.hist0) >= 2

\* C9 as stated: while the request of a submit is in flight the history
\* already ends with the user turn of that submit.
C9_Original ==
    pc \in {"send_message", "ask_ai"} =>
        History = Append(last.hist0, Turn("user", last.input))

\* C9 amended: handle_prompt appends the user turn before its request and
\* the assistant turn after it; the Ask AI handler appends nothing while
\* its request is in flight and appends question and answer together once
\* the request has returned or failed.
C9_AppendOrder ==
    /\ pc = "send_message" => History = Append(last.hist0, Turn("user", last.input))
    /\ pc = "ask_ai" => History = last.hist0
    /\ (last.op \in SubmitOps /\ Answered) =>
          /\ Len(History) = Len(last.hist0) + 2
          /\ History[Len(History) - 1] = Turn("user", last.input)
          /\ LastTurn.role = "assistant"

C9_Witness ==
    /\ pc = "ask_ai"
    /\ History = last.hist0
    /\ Len(History) >= 2

\* C10: every accepted submit sends exactly one request; a failed request
\* is followed by no further request of the same submit.
C10_OneCallNoRetry ==
    /\ InFlight => calls = last.calls0 + 1
    /\ Answered => calls = last.calls0 + 1
    /\ (last.done /\ last.outcome.kind = "none") => calls = last.calls0
    /\ (last.done /\ last.outcome.kind = "raise") => ~InFlight /\ pending = NoRequest

C10_Witness ==
    /\ last.done /\ last.outcome.kind = "raise"
    /\ calls = MaxCalls
    /\ last.calls0 = MaxCalls - 1
====
